---------------------------- MODULE Spec2Model ----------------------------
(*************************************************************************)
(* Pixfix: repair of colour bleed in RGBA rasters.                       *)
(*                                                                       *)
(*   src/src/main.rs   nearest-border-point pipeline (convert_image) and *)
(*                     the batch orchestrator (main, resolve_files)      *)
(*   src/src/maina.rs  flood-averaging pipeline (fix_alpha_bleed)        *)
(*                                                                       *)
(* Four specifications share this module:                                *)
(*   Spec           the batch orchestrator of main.rs, tasks interleaved *)
(*   SpecConvert    one call of convert_image, statement by statement    *)
(*   SpecFlood      the calls of fix_alpha_bleed main makes on one file, *)
(*                  statement by statement                               *)
(*   SpecFloodFair  SpecFlood on smaller rasters, with the fairness of   *)
(*                  a single running thread                              *)
(*************************************************************************)
EXTENDS Integers, Sequences, FiniteSets, TLC

VARIABLES
    \* ---- convert_image (main.rs:106-214), one call
    debug,               \* the -d flag (main.rs:229-236)
    file,                \* the file at `path`: [decodable, img]
    cpc,                 \* position in convert_image
    img,                 \* the decoded image (main.rs:107)
    rgba_img,            \* the working raster (main.rs:119)
    scan,                \* pixels visited by the y/x loops (main.rs:133-134)
    points,              \* main.rs:124
    colors,              \* main.rs:125
    transparent_pixels,  \* main.rs:126
    position_to_index,   \* main.rs:127
    filled,              \* iterations done of the loop at main.rs:186
    ret,                 \* value returned by convert_image
    saves,               \* number of rgba_img.save calls made (main.rs:207)
    \* ---- main (main.rs:226-296), one batch
    args,                \* the command line without argv[0] and -d
    fs,                  \* content of each PNG-named file on disk
    fs0,                 \* fs when the batch started (history)
    mpc,                 \* position in main
    files,               \* main.rs:251
    all_files,           \* main.rs:251
    files_fixed,         \* main.rs:239
    files_failed,        \* main.rs:240
    tasks,               \* the closures spawned at main.rs:259, in spawn order
    threads,             \* the JoinSet (main.rs:249): tasks not yet joined
    fixed_count,         \* main.rs:278
    failed_count,        \* main.rs:279
    \* ---- fix_alpha_bleed (maina.rs:116-362), one call
    color_space,         \* maina.rs:122
    result,              \* maina.rs:120, the variant of DecodingResult
    value,               \* maina.rs:241, the decoded buffer, mutated in place
    lookup,              \* maina.rs:245
    stages,              \* maina.rs:253
    queue0,              \* maina.rs:251
    queue1,              \* maina.rs:252
    fpc,                 \* position in fix_alpha_bleed
    fscan,               \* pixels visited by the x/y loops at maina.rs:268-269
    qi,                  \* entries of queue0 handled by the loop at maina.rs:293
    written,             \* the buffer given to write (maina.rs:353), if any
    fret                 \* the success flag returned (maina.rs:125, 361)

cvars == <<debug, file, cpc, img, rgba_img, scan, points, colors,
           transparent_pixels, position_to_index, filled, ret, saves>>

bvars == <<args, fs, fs0, mpc, files, all_files, files_fixed, files_failed,
           tasks, threads, fixed_count, failed_count>>

fvars == <<color_space, result, value, lookup, stages, queue0, queue1, fpc, fscan, qi,
           written, fret>>

vars == <<cvars, bvars, fvars>>

-----------------------------------------------------------------------------
(* Bounds of the model.                                                  *)

\* convert_image is explored on every raster of at most MaxPixels pixels.
MaxPixels == 6

\* A batch is given at most MaxArgs arguments.
MaxArgs == 2

\* fix_alpha_bleed is explored on every raster of at most FloodPixels pixels.
FloodPixels == 8

\* The termination of fix_alpha_bleed is explored on every raster of at most
\* FairFloodPixels pixels.
FairFloodPixels == 6

-----------------------------------------------------------------------------
(* Rasters: width, height and a row-major buffer of RGBA pixels.         *)

\* A fully transparent pixel carrying stale colour channels.
StalePx == <<9, 9, 9, 0>>
\* An opaque pixel and a partly transparent one (alpha > 0).
RedPx == <<255, 0, 0, 255>>
BluePx == <<0, 0, 255, 128>>

Palette == {StalePx, RedPx, BluePx}

Dims(n) == {d \in (1..n) \X (1..n) : d[1] * d[2] <= n}

Rasters(n) ==
    UNION {[w : {d[1]}, h : {d[2]}, px : [1..(d[1] * d[2]) -> Palette]] : d \in Dims(n)}

NoRaster == [w |-> 0, h |-> 0, px |-> <<>>]

\* Offset of pixel (x, y) in the buffer, in pixels (main.rs:135, maina.rs:259).
PixelIndex(r, x, y) == y * r.w + x + 1

GetPixel(r, x, y) == r.px[PixelIndex(r, x, y)]

Alpha(r, x, y) == GetPixel(r, x, y)[4]

RGB(p) == <<p[1], p[2], p[3]>>

\* image::RgbaImage::put_pixel
put_pixel(r, x, y, p) == [r EXCEPT !.px[PixelIndex(r, x, y)] = p]

Coords(r) == {c \in (0..(r.w - 1)) \X (0..(r.h - 1)) : TRUE}

\* The k-th coordinate visited by `for y in 0..height { for x in 0..width`.
RowMajor(r, k) == <<k % r.w, k \div r.w>>

NEIGHBORS ==
    << <<-1, -1>>, <<0, -1>>, <<1, -1>>, <<1, 0>>,
       <<1, 1>>, <<0, 1>>, <<-1, 1>>, <<-1, 0>> >>

\* A faulty variant of IsBorder: a neighbour outside the image counts as
\* transparent.
IsBorderNoBoundsCheck(r, x, y) ==
    \E k \in 1..8 :
        LET neighbor_x == x + NEIGHBORS[k][1]
            neighbor_y == y + NEIGHBORS[k][2]
        IN  \/ (neighbor_x < 0 \/ neighbor_y < 0
                 \/ neighbor_x >= r.w \/ neighbor_y >= r.h)
            \/ Alpha(r, neighbor_x, neighbor_y) = 0

\* A faulty variant of IsBorder: only the four edge neighbours are tested.
IsBorderSkipsDiagonals(r, x, y) ==
    \E k \in {2, 4, 6, 8} :
        LET neighbor_x == x + NEIGHBORS[k][1]
            neighbor_y == y + NEIGHBORS[k][2]
        IN  /\ ~(neighbor_x < 0 \/ neighbor_y < 0
                 \/ neighbor_x >= r.w \/ neighbor_y >= r.h)
            /\ Alpha(r, neighbor_x, neighbor_y) = 0

\* A faulty variant of IsBorder: only the three neighbours of the row above
\* are tested.
IsBorderLooksUpOnly(r, x, y) ==
    \E k \in 1..3 :
        LET neighbor_x == x + NEIGHBORS[k][1]
            neighbor_y == y + NEIGHBORS[k][2]
        IN  /\ ~(neighbor_x < 0 \/ neighbor_y < 0
                 \/ neighbor_x >= r.w \/ neighbor_y >= r.h)
            /\ Alpha(r, neighbor_x, neighbor_y) = 0

\* main.rs:144-158: some in-bounds Moore neighbour has alpha 0.
IsBorder(r, x, y) ==
    \E k \in 1..8 :
        LET neighbor_x == x + NEIGHBORS[k][1]
            neighbor_y == y + NEIGHBORS[k][2]
        IN  /\ ~(neighbor_x < 0 \/ neighbor_y < 0
                 \/ neighbor_x >= r.w \/ neighbor_y >= r.h)
            /\ Alpha(r, neighbor_x, neighbor_y) = 0


-----------------------------------------------------------------------------
(* convert_image, main.rs:106-214.                                       *)

\* `x as f64` of a u32 is exact. `v as u32` of an f64 truncates and saturates;
\* coordinates are whole numbers far below 2^32, so only the lower clamp shows.
ToF64(n) == n
AsU32(v) == IF v < 0 THEN 0 ELSE v

\* What the scan has collected: main.rs:124-127.
EmptyScan ==
    [points |-> <<>>, colors |-> <<>>, transparent_pixels |-> <<>>,
     position_to_index |-> <<>>]

\* One iteration of the body of the loops at main.rs:133-170, on the k-th pixel.
ScanStep(r, acc, k) ==
    LET c == RowMajor(r, k)
        p == GetPixel(r, c[1], c[2])
    IN  IF p[4] = 0
        THEN [acc EXCEPT !.transparent_pixels = Append(@, c)]
        ELSE IF IsBorder(r, c[1], c[2])
        THEN [acc EXCEPT
                 !.position_to_index = (c :> Len(acc.points)) @@ @,
                 !.points = Append(@, <<ToF64(c[1]), ToF64(c[2])>>),
                 !.colors = Append(@, RGB(p))]
        ELSE acc

Dist2(p, q) == (p[1] - q[1]) * (p[1] - q[1]) + (p[2] - q[2]) * (p[2] - q[2])

Range(s) == {s[i] : i \in DOMAIN s}

\* triangulation.nearest_neighbor(q), main.rs:187-188: the vertices at minimum
\* Euclidean distance from q; the index returns one of them (none when empty).
NearestNeighbor(pts, q) ==
    {p \in Range(pts) : \A p2 \in Range(pts) : Dist2(p, q) <= Dist2(p2, q)}

\* A faulty variant of FillOne: the debug flag is ignored, alpha stays 0.
FillOneKeepsAlpha(r, acc, dbg, c, closest_position) ==
    LET key == <<AsU32(closest_position[1]), AsU32(closest_position[2])>>
    IN  IF key \in DOMAIN acc.position_to_index
        THEN LET closest_color == acc.colors[acc.position_to_index[key] + 1]
             IN  put_pixel(r, c[1], c[2],
                     <<closest_color[1], closest_color[2], closest_color[3], 0>>)
        ELSE r

\* A faulty variant of FillOne: the colour of the first recorded point is used.
FillOneOwnIndex(r, acc, dbg, c, closest_position) ==
    LET key == <<AsU32(closest_position[1]), AsU32(closest_position[2])>>
    IN  IF key \in DOMAIN acc.position_to_index
        THEN LET closest_color == acc.colors[1]
                 a == IF dbg THEN 255 ELSE 0
             IN  put_pixel(r, c[1], c[2],
                     <<closest_color[1], closest_color[2], closest_color[3], a>>)
        ELSE r

\* A faulty variant of FillOne: alpha 255 is written whatever the debug flag.
FillOneAlwaysOpaque(r, acc, dbg, c, closest_position) ==
    LET key == <<AsU32(closest_position[1]), AsU32(closest_position[2])>>
    IN  IF key \in DOMAIN acc.position_to_index
        THEN LET closest_color == acc.colors[acc.position_to_index[key] + 1]
             IN  put_pixel(r, c[1], c[2],
                     <<closest_color[1], closest_color[2], closest_color[3], 255>>)
        ELSE r

\* main.rs:190-203: the colour recorded for closest_position goes to pixel c.
FillOne(r, acc, dbg, c, closest_position) ==
    LET key == <<AsU32(closest_position[1]), AsU32(closest_position[2])>>
    IN  IF key \in DOMAIN acc.position_to_index
        THEN LET closest_color == acc.colors[acc.position_to_index[key] + 1]
                 a == IF dbg THEN 255 ELSE 0
             IN  put_pixel(r, c[1], c[2],
                     <<closest_color[1], closest_color[2], closest_color[3], a>>)
        ELSE r

Acc == [points |-> points, colors |-> colors,
        transparent_pixels |-> transparent_pixels,
        position_to_index |-> position_to_index]

Files(n) ==
    {[decodable |-> TRUE, img |-> r] : r \in Rasters(n)}
        \cup {[decodable |-> FALSE, img |-> NoRaster]}

\* The variables of `main` while no batch is modelled.
IdleBatch ==
    /\ args = <<>>
    /\ fs = <<>>
    /\ fs0 = <<>>
    /\ mpc = "idle"
    /\ files = <<>>
    /\ all_files = 0
    /\ files_fixed = 0
    /\ files_failed = 0
    /\ tasks = <<>>
    /\ threads = {}
    /\ fixed_count = 0
    /\ failed_count = 0

\* The variables of fix_alpha_bleed before anything is decoded.
FloodAtEntry ==
    /\ value = NoRaster
    /\ lookup = NoRaster
    /\ stages = <<>>
    /\ queue0 = <<>>
    /\ queue1 = <<>>
    /\ fscan = 0
    /\ qi = 0
    /\ written = NoRaster
    /\ fret = "pending"

\* The variables of fix_alpha_bleed while no call is modelled.
IdleFlood ==
    /\ color_space = "RGBA"
    /\ result = "U8"
    /\ fpc = "idle"
    /\ FloodAtEntry

\* The variables of one convert_image call before it starts.
ConvertAtEntry ==
    /\ cpc = "open"
    /\ img = NoRaster
    /\ rgba_img = NoRaster
    /\ scan = 0
    /\ points = <<>>
    /\ colors = <<>>
    /\ transparent_pixels = <<>>
    /\ position_to_index = <<>>
    /\ filled = 0
    /\ ret = "pending"
    /\ saves = 0

InitConvert ==
    /\ debug \in BOOLEAN
    /\ file \in Files(MaxPixels)
    /\ ConvertAtEntry
    /\ IdleBatch
    /\ IdleFlood

\* main.rs:107-120, image::open succeeded.
OpenOk ==
    /\ cpc = "open"
    /\ file.decodable
    /\ img' = file.img
    /\ rgba_img' = file.img
    /\ cpc' = "scan"
    /\ UNCHANGED <<bvars, fvars>>
    /\ UNCHANGED <<debug, file, scan, points, colors, transparent_pixels,
                   position_to_index, filled, ret, saves>>

\* main.rs:109-116, image::open failed.
OpenErr ==
    /\ cpc = "open"
    /\ ~file.decodable
    /\ ret' = "false"
    /\ cpc' = "done"
    /\ UNCHANGED <<bvars, fvars>>
    /\ UNCHANGED <<debug, file, img, rgba_img, scan, points, colors,
                   transparent_pixels, position_to_index, filled, saves>>

\* main.rs:133-170, one pixel.
ScanPixel ==
    /\ cpc = "scan"
    /\ scan < rgba_img.w * rgba_img.h
    /\ LET acc == ScanStep(rgba_img, Acc, scan)
       IN  /\ points' = acc.points
           /\ colors' = acc.colors
           /\ transparent_pixels' = acc.transparent_pixels
           /\ position_to_index' = acc.position_to_index
    /\ scan' = scan + 1
    /\ UNCHANGED <<bvars, fvars>>
    /\ UNCHANGED <<debug, file, cpc, img, rgba_img, filled, ret, saves>>

\* main.rs:172-175.
NoBorderPixels ==
    /\ cpc = "scan"
    /\ scan = rgba_img.w * rgba_img.h
    /\ points = <<>>
    /\ ret' = "false"
    /\ cpc' = "done"
    /\ UNCHANGED <<bvars, fvars>>
    /\ UNCHANGED <<debug, file, img, rgba_img, scan, points, colors,
                   transparent_pixels, position_to_index, filled, saves>>

\* main.rs:177-183: Triangulation::bulk_load returns Ok or Err.
BulkLoad ==
    /\ cpc = "scan"
    /\ scan = rgba_img.w * rgba_img.h
    /\ points # <<>>
    /\ \E ok \in BOOLEAN :
          IF ok THEN cpc' = "fill" /\ ret' = ret
                ELSE cpc' = "done" /\ ret' = "false"
    /\ UNCHANGED <<bvars, fvars>>
    /\ UNCHANGED <<debug, file, img, rgba_img, scan, points, colors,
                   transparent_pixels, position_to_index, filled, saves>>

\* main.rs:186-205, one transparent pixel.
FillPixel ==
    /\ cpc = "fill"
    /\ filled < Len(transparent_pixels)
    /\ LET c == transparent_pixels[filled + 1]
           q == <<ToF64(c[1]), ToF64(c[2])>>
       IN  IF NearestNeighbor(points, q) = {}
           THEN rgba_img' = rgba_img
           ELSE \E closest_position \in NearestNeighbor(points, q) :
                   rgba_img' = FillOne(rgba_img, Acc, debug, c, closest_position)
    /\ filled' = filled + 1
    /\ UNCHANGED <<bvars, fvars>>
    /\ UNCHANGED <<debug, file, cpc, img, scan, points, colors,
                   transparent_pixels, position_to_index, ret, saves>>

\* A faulty variant of SaveReady: the save does not wait for the loop's end.
SaveReadyAnyTime == cpc = "fill"

\* The loop at main.rs:186 has run to its end.
SaveReady == cpc = "fill" /\ filled = Len(transparent_pixels)

\* main.rs:207-213: the raster is encoded and written over `path`; a failed
\* save leaves the file as it was or truncated.
Save ==
    /\ SaveReady
    /\ saves' = saves + 1
    /\ \/ /\ file' = [decodable |-> TRUE, img |-> rgba_img]
          /\ ret' = "true"
       \/ /\ file' \in {file, [decodable |-> FALSE, img |-> NoRaster]}
          /\ ret' = "false"
    /\ cpc' = "done"
    /\ UNCHANGED <<bvars, fvars>>
    /\ UNCHANGED <<debug, img, rgba_img, scan, points, colors,
                   transparent_pixels, position_to_index, filled>>

\* A faulty variant of CountedFixed: the outcome is not looked at.
CountedAlwaysFixed(converted) == TRUE

\* main.rs:261: whether the task adds to files_fixed.
CountedFixed(converted) == converted = "true"

\* u16 arithmetic (AtomicU16, all_files).
Wrap16(n) == n % 65536

\* main.rs:260-265: the closure counts the file once convert_image returned.
CountOne ==
    /\ cpc = "done"
    /\ IF CountedFixed(ret)
       THEN files_fixed' = Wrap16(files_fixed + 1) /\ files_failed' = files_failed
       ELSE files_failed' = Wrap16(files_failed + 1) /\ files_fixed' = files_fixed
    /\ cpc' = "counted"
    /\ UNCHANGED <<args, fs, fs0, mpc, files, all_files, tasks, threads,
                   fixed_count, failed_count>>
    /\ UNCHANGED fvars
    /\ UNCHANGED <<debug, file, img, rgba_img, scan, points, colors,
                   transparent_pixels, position_to_index, filled, ret, saves>>

\* One task of the batch: convert_image, then the count.
NextConvert ==
    \/ OpenOk
    \/ OpenErr
    \/ ScanPixel
    \/ NoBorderPixels
    \/ BulkLoad
    \/ FillPixel
    \/ Save
    \/ CountOne

SpecConvert == InitConvert /\ [][NextConvert]_vars


-----------------------------------------------------------------------------
(* convert_image as one step of a task: the same scan and fill, folded.  *)

RECURSIVE ScanFrom(_, _, _)
ScanFrom(r, acc, k) ==
    IF k >= r.w * r.h THEN acc ELSE ScanFrom(r, ScanStep(r, acc, k), k + 1)

\* main.rs:133-170, the whole scan.
Classify(r) == ScanFrom(r, EmptyScan, 0)

RECURSIVE FillFrom(_, _, _, _)
\* main.rs:186-205 from the i-th transparent pixel on: the rasters the loop
\* can end with, one for each way the index resolves equidistant points.
FillFrom(r, acc, dbg, i) ==
    IF i > Len(acc.transparent_pixels) THEN {r}
    ELSE LET c == acc.transparent_pixels[i]
             nn == NearestNeighbor(acc.points, <<ToF64(c[1]), ToF64(c[2])>>)
         IN  IF nn = {} THEN FillFrom(r, acc, dbg, i + 1)
             ELSE UNION {FillFrom(FillOne(r, acc, dbg, c, closest_position),
                                  acc, dbg, i + 1) : closest_position \in nn}

\* The fold agrees with the statement-by-statement run of SpecConvert: the scan
\* ends with Classify's result and the fill with one of FillFrom's rasters.
FoldAgreesWithSteps ==
    /\ (cpc = "scan" /\ img # NoRaster) => ScanFrom(img, Acc, scan) = Classify(img)
    /\ cpc = "fill" =>
          /\ Acc = Classify(img)
          /\ FillFrom(rgba_img, Acc, debug, filled + 1)
                 \subseteq FillFrom(img, Classify(img), debug, 1)

-----------------------------------------------------------------------------
(* The batch: resolve_files (main.rs:40-104) and main (main.rs:226-296). *)

\* The paths a batch can name.
ArgSet == {"a.png", "d/B.PNG", "n.txt", "d", "u", "sock", "zz"}

\* std::fs::metadata(path): a regular file, a directory, something else, or
\* an error.
Metadata(path) ==
    CASE path \in {"a.png", "d/B.PNG", "n.txt", "d/m.txt"} -> "file"
      [] path \in {"d", "u", "d/sub"} -> "dir"
      [] path = "sock" -> "other"
      [] OTHER -> "error"

\* std::fs::read_dir(path): the entries, or an error for the unreadable "u".
ReadDirOk(path) == path = "d"
ReadDir(path) == IF path = "d" THEN <<"d/B.PNG", "d/m.txt", "d/sub">> ELSE <<>>

\* Path::extension
Extension(path) ==
    CASE path = "a.png" -> "png"
      [] path = "d/B.PNG" -> "PNG"
      [] path \in {"n.txt", "d/m.txt"} -> "txt"
      [] OTHER -> ""

AsciiLower(e) == IF e = "PNG" THEN "png" ELSE e

\* main.rs:34-38
is_png_file(path) == AsciiLower(Extension(path)) = "png"

\* The PNG-named regular files; fs holds their content.
PngPaths == {"a.png", "d/B.PNG"}

RECURSIVE ResolveDir(_, _, _)
\* main.rs:83-100: the entries of one directory, from the j-th on.
ResolveDir(entries, j, st) ==
    IF j > Len(entries) THEN st
    ELSE LET path == entries[j]
         IN  IF Metadata(path) = "file"
             THEN ResolveDir(entries, j + 1,
                     [all_files |-> Wrap16(st.all_files + 1),
                      files |-> IF is_png_file(path)
                                THEN Append(st.files, path) ELSE st.files])
             ELSE ResolveDir(entries, j + 1, st)

\* A faulty variant of ResolveArg: the `all_files -= 1` of main.rs:81 is missing.
ResolveArgCountsDirs(arg, st) ==
    IF Metadata(arg) = "error" THEN st
    ELSE LET st1 == [st EXCEPT !.all_files = Wrap16(@ + 1)]
         IN  IF Metadata(arg) = "file"
             THEN IF ~is_png_file(arg) THEN st1
                  ELSE [st1 EXCEPT !.files = Append(@, arg)]
             ELSE IF Metadata(arg) # "dir" THEN st1
             ELSE IF ~ReadDirOk(arg) THEN st1
             ELSE ResolveDir(ReadDir(arg), 1, st1)

\* main.rs:45-100: one argument.
ResolveArg(arg, st) ==
    IF Metadata(arg) = "error" THEN st
    ELSE LET st1 == [st EXCEPT !.all_files = Wrap16(@ + 1)]
         IN  IF Metadata(arg) = "file"
             THEN IF ~is_png_file(arg) THEN st1
                  ELSE [st1 EXCEPT !.files = Append(@, arg)]
             ELSE IF Metadata(arg) # "dir" THEN st1
             ELSE IF ~ReadDirOk(arg) THEN st1
             ELSE ResolveDir(ReadDir(arg), 1,
                     [st1 EXCEPT !.all_files = Wrap16(@ + 65536 - 1)])

RECURSIVE ResolveFrom(_, _, _)
ResolveFrom(as, i, st) ==
    IF i > Len(as) THEN st ELSE ResolveFrom(as, i + 1, ResolveArg(as[i], st))

\* main.rs:40-104
resolve_files(as) == ResolveFrom(as, 1, [files |-> <<>>, all_files |-> 0])

\* The files a batch is tried on: a raster with one border point, one that is
\* opaque throughout, and a file that does not decode.
MixedFile == [decodable |-> TRUE, img |-> [w |-> 2, h |-> 1, px |-> <<RedPx, StalePx>>]]
OpaqueFile == [decodable |-> TRUE, img |-> [w |-> 2, h |-> 1, px |-> <<RedPx, BluePx>>]]
BadFile == [decodable |-> FALSE, img |-> NoRaster]
SampleFiles == {MixedFile, OpaqueFile, BadFile}

ArgLists == UNION {[1..n -> ArgSet] : n \in 0..MaxArgs}

\* The variables of convert_image while the batch is modelled.
IdleConvert ==
    /\ file = BadFile
    /\ ConvertAtEntry

Init ==
    /\ debug \in BOOLEAN
    /\ args \in ArgLists
    /\ fs \in [PngPaths -> SampleFiles]
    /\ fs0 = fs
    /\ mpc = "start"
    /\ files = <<>>
    /\ all_files = 0
    /\ files_fixed = 0
    /\ files_failed = 0
    /\ tasks = <<>>
    /\ threads = {}
    /\ fixed_count = 0
    /\ failed_count = 0
    /\ IdleConvert
    /\ IdleFlood

\* main.rs:244-245: nothing to do.
NoArgs ==
    /\ mpc = "start"
    /\ args = <<>>
    /\ mpc' = "load_fixed"
    /\ UNCHANGED <<args, fs, fs0, files, all_files, files_fixed, files_failed,
                   tasks, threads, fixed_count, failed_count>>
    /\ UNCHANGED <<cvars, fvars>>

\* main.rs:249-253: the files are resolved and the ignored ones counted failed.
Resolve ==
    /\ mpc = "start"
    /\ args # <<>>
    /\ LET res == resolve_files(args)
           num_failed == Wrap16(res.all_files + 65536 - Wrap16(Len(res.files)))
       IN  /\ files' = res.files
           /\ all_files' = res.all_files
           /\ files_failed' = Wrap16(files_failed + num_failed)
           /\ mpc' = IF res.files = <<>> THEN "join" ELSE "spawn"
    /\ UNCHANGED <<args, fs, fs0, files_fixed, tasks, threads, fixed_count,
                   failed_count>>
    /\ UNCHANGED <<cvars, fvars>>

NewTask(path) ==
    [path |-> path, pc |-> "start", read |-> BadFile, rgba |-> NoRaster,
     converted |-> "pending", wrote |-> FALSE, inc_fixed |-> 0, inc_failed |-> 0]

\* main.rs:255-267: one iteration of the spawn loop.
Spawn ==
    /\ mpc = "spawn"
    /\ Len(tasks) < Len(files)
    /\ tasks' = Append(tasks, NewTask(files[Len(tasks) + 1]))
    /\ threads' = threads \cup {Len(tasks) + 1}
    /\ mpc' = IF Len(tasks) + 1 = Len(files) THEN "join" ELSE "spawn"
    /\ UNCHANGED <<args, fs, fs0, files, all_files, files_fixed, files_failed,
                   fixed_count, failed_count>>
    /\ UNCHANGED <<cvars, fvars>>

SetTask(i, t) == tasks' = [tasks EXCEPT ![i] = t]

\* main.rs:260, convert_image up to the save (main.rs:107-205): the file is
\* read once, then the task works on its own raster.
TaskConvert(i) ==
    /\ tasks[i].pc = "start"
    /\ LET t == [tasks[i] EXCEPT !.read = fs[tasks[i].path]]
           f == fs[tasks[i].path]
           failed == [t EXCEPT !.converted = "false", !.pc = "count"]
       IN  \/ /\ ~f.decodable
              /\ SetTask(i, failed)
           \/ /\ f.decodable
              /\ Classify(f.img).points = <<>>
              /\ SetTask(i, [failed EXCEPT !.rgba = f.img])
           \/ /\ f.decodable
              /\ Classify(f.img).points # <<>>
              /\ \/ SetTask(i, [failed EXCEPT !.rgba = f.img])
                 \/ \E out \in FillFrom(f.img, Classify(f.img), debug, 1) :
                       SetTask(i, [t EXCEPT !.rgba = out, !.pc = "save"])
    /\ UNCHANGED <<args, fs, fs0, mpc, files, all_files, files_fixed,
                   files_failed, threads, fixed_count, failed_count>>
    /\ UNCHANGED <<cvars, fvars>>

\* main.rs:207, rgba_img.save: the file is created (truncated), or cannot be.
TaskCreate(i) ==
    /\ tasks[i].pc = "save"
    /\ \/ /\ fs' = [fs EXCEPT ![tasks[i].path] = BadFile]
          /\ SetTask(i, [tasks[i] EXCEPT !.pc = "write", !.wrote = TRUE])
       \/ /\ fs' = fs
          /\ SetTask(i, [tasks[i] EXCEPT !.converted = "false", !.pc = "count"])
    /\ UNCHANGED <<args, fs0, mpc, files, all_files, files_fixed, files_failed,
                   threads, fixed_count, failed_count>>
    /\ UNCHANGED <<cvars, fvars>>

\* main.rs:207-213, rgba_img.save: the encoded raster is written, or the write
\* fails.
TaskWrite(i) ==
    /\ tasks[i].pc = "write"
    /\ \/ /\ fs' = [fs EXCEPT ![tasks[i].path] =
                       [decodable |-> TRUE, img |-> tasks[i].rgba]]
          /\ SetTask(i, [tasks[i] EXCEPT !.converted = "true", !.pc = "count"])
       \/ /\ fs' = fs
          /\ SetTask(i, [tasks[i] EXCEPT !.converted = "false", !.pc = "count"])
    /\ UNCHANGED <<args, fs0, mpc, files, all_files, files_fixed, files_failed,
                   threads, fixed_count, failed_count>>
    /\ UNCHANGED <<cvars, fvars>>

\* main.rs:261-265: one fetch_add.
TaskCount(i) ==
    /\ tasks[i].pc = "count"
    /\ IF CountedFixed(tasks[i].converted)
       THEN /\ files_fixed' = Wrap16(files_fixed + 1)
            /\ files_failed' = files_failed
            /\ SetTask(i, [tasks[i] EXCEPT !.pc = "done", !.inc_fixed = @ + 1])
       ELSE /\ files_failed' = Wrap16(files_failed + 1)
            /\ files_fixed' = files_fixed
            /\ SetTask(i, [tasks[i] EXCEPT !.pc = "done", !.inc_failed = @ + 1])
    /\ UNCHANGED <<args, fs, fs0, mpc, files, all_files, threads, fixed_count,
                   failed_count>>
    /\ UNCHANGED <<cvars, fvars>>

\* A faulty variant of Joinable: join_next returns tasks still running.
JoinableAnyTask(i) == TRUE

\* A task join_next can return: one that has run to its end.
Joinable(i) == tasks[i].pc = "done"

\* main.rs:269: join_next returns a finished task.
Join(i) ==
    /\ mpc = "join"
    /\ i \in threads
    /\ Joinable(i)
    /\ threads' = threads \ {i}
    /\ UNCHANGED <<args, fs, fs0, mpc, files, all_files, files_fixed,
                   files_failed, tasks, fixed_count, failed_count>>
    /\ UNCHANGED <<cvars, fvars>>

\* main.rs:269: join_next returns None, the JoinSet is empty.
JoinNone ==
    /\ mpc = "join"
    /\ threads = {}
    /\ mpc' = "load_fixed"
    /\ UNCHANGED <<args, fs, fs0, files, all_files, files_fixed, files_failed,
                   tasks, threads, fixed_count, failed_count>>
    /\ UNCHANGED <<cvars, fvars>>

\* main.rs:278
LoadFixed ==
    /\ mpc = "load_fixed"
    /\ fixed_count' = files_fixed
    /\ mpc' = "load_failed"
    /\ UNCHANGED <<args, fs, fs0, files, all_files, files_fixed, files_failed,
                   tasks, threads, failed_count>>
    /\ UNCHANGED <<cvars, fvars>>

\* main.rs:279
LoadFailed ==
    /\ mpc = "load_failed"
    /\ failed_count' = files_failed
    /\ mpc' = "done"
    /\ UNCHANGED <<args, fs, fs0, files, all_files, files_fixed, files_failed,
                   tasks, threads, fixed_count>>
    /\ UNCHANGED <<cvars, fvars>>

Next ==
    \/ NoArgs
    \/ Resolve
    \/ Spawn
    \/ \E i \in DOMAIN tasks : TaskConvert(i)
    \/ \E i \in DOMAIN tasks : TaskCreate(i)
    \/ \E i \in DOMAIN tasks : TaskWrite(i)
    \/ \E i \in DOMAIN tasks : TaskCount(i)
    \/ \E i \in DOMAIN tasks : Join(i)
    \/ JoinNone
    \/ LoadFixed
    \/ LoadFailed

Spec == Init /\ [][Next]_vars

-----------------------------------------------------------------------------
(* Properties of convert_image (SpecConvert).                            *)

\* The border points and the transparent pixels of a raster, as defined in
\* the data model: alpha > 0 with an 8-connected neighbour of alpha 0.
BorderPoints(r) ==
    {c \in Coords(r) :
        /\ Alpha(r, c[1], c[2]) > 0
        /\ \E n \in Coords(r) :
              /\ n # c
              /\ n[1] - c[1] \in {-1, 0, 1}
              /\ n[2] - c[2] \in {-1, 0, 1}
              /\ Alpha(r, n[1], n[2]) = 0}

TransparentSet(r) == {c \in Coords(r) : Alpha(r, c[1], c[2]) = 0}

\* The fill loop of main.rs:186-205 has run to its end.
FillComplete ==
    \/ cpc = "fill" /\ filled = Len(transparent_pixels)
    \/ saves > 0

\* C5: after a successful nearest-point fill every pixel that had alpha 0 in
\* the input carries the exact RGB of some border point of the input image,
\* and alpha 0 (debug off) or 255 (debug on).
C5_FilledFromBorder ==
    FillComplete =>
        \A c \in TransparentSet(img) :
            LET p == GetPixel(rgba_img, c[1], c[2])
            IN  /\ \E b \in BorderPoints(img) :
                       RGB(p) = RGB(GetPixel(img, b[1], b[2]))
                /\ p[4] = (IF debug THEN 255 ELSE 0)

\* A debug run that filled two pixels with two different border colours.
C5_Witness ==
    /\ FillComplete
    /\ debug
    /\ \E c1, c2 \in TransparentSet(img) :
          /\ RGB(GetPixel(rgba_img, c1[1], c1[2])) = RGB(RedPx)
          /\ RGB(GetPixel(rgba_img, c2[1], c2[2])) = RGB(BluePx)

\* C6: the colour given to a filled transparent pixel p is the colour the
\* input records at a border point at minimum Euclidean distance from p.
C6_NearestBorderColour ==
    cpc \in {"fill", "done"} =>
        \A i \in 1..filled :
            LET c == transparent_pixels[i]
            IN  \E b \in BorderPoints(img) :
                    /\ \A b2 \in BorderPoints(img) : Dist2(b, c) <= Dist2(b2, c)
                    /\ RGB(GetPixel(rgba_img, c[1], c[2]))
                           = RGB(GetPixel(img, b[1], b[2]))

\* A filled pixel whose nearest border point is not the first one recorded and
\* has another colour than the first.
C6_Witness ==
    /\ cpc = "fill"
    /\ Len(points) >= 2
    /\ \E i \in 1..filled :
          LET c == transparent_pixels[i]
          IN  /\ RGB(GetPixel(rgba_img, c[1], c[2])) # colors[1]
              /\ Dist2(points[1], c) > Dist2(points[2], c)

\* C7: with debug off the pipeline leaves every alpha byte as it was and all
\* four bytes of every pixel whose input alpha is above 0; the raster written
\* to the file is that raster.
C7_OnlyTransparentRGB ==
    (~debug /\ cpc # "open" /\ img # NoRaster) =>
        /\ \A c \in Coords(img) :
              LET p == GetPixel(rgba_img, c[1], c[2])
                  q == GetPixel(img, c[1], c[2])
              IN  /\ p[4] = q[4]
                  /\ q[4] > 0 => p = q
        /\ TransparentSet(rgba_img) = TransparentSet(img)
        /\ ret = "true" => file = [decodable |-> TRUE, img |-> rgba_img]

\* A non-debug run that changed the raster and wrote it.
C7_Witness ==
    /\ ~debug
    /\ ret = "true"
    /\ rgba_img # img
    /\ Cardinality(BorderPoints(img)) >= 2

\* C9: a save is made only once, after the fill loop has handled every
\* transparent pixel; until then the file is as it was read, and a call that
\* ends without a save has mutated no pixel.
C9_SaveOnlyAfterFill ==
    /\ saves <= 1
    /\ saves > 0 =>
          /\ filled = Len(transparent_pixels)
          /\ \A c \in TransparentSet(img) :
                \E b \in BorderPoints(img) :
                    RGB(GetPixel(rgba_img, c[1], c[2])) = RGB(GetPixel(img, b[1], b[2]))
    /\ (saves = 0 /\ cpc # "open") =>
          /\ file.img = img
          /\ file.decodable <=> img # NoRaster
    /\ (saves = 0 /\ cpc = "done") => (ret = "false" /\ rgba_img = img)

\* A failed call after the index could not be built, with several pixels still
\* to fill: nothing was saved.
C9_Witness ==
    /\ cpc = "done"
    /\ saves = 0
    /\ points # <<>>
    /\ Len(transparent_pixels) >= 2


\* C8: an image whose border set is empty (nothing transparent, nothing with
\* alpha above 0, or no adjacency) makes convert_image return false with the
\* raster untouched and the file not written, and the task counts it failed.
C8_EmptyBorderIsFailedNoOp ==
    (img # NoRaster /\ BorderPoints(img) = {}) =>
        /\ cpc # "fill"
        /\ saves = 0
        /\ rgba_img = img
        /\ file = [decodable |-> TRUE, img |-> img]
        /\ cpc \in {"done", "counted"} => ret = "false"
        /\ cpc = "counted" => (files_failed = 1 /\ files_fixed = 0)

\* A fully opaque image of several pixels, and a fully transparent one, counted.
C8_Witness ==
    /\ cpc = "counted"
    /\ img # NoRaster
    /\ BorderPoints(img) = {}
    /\ img.w * img.h >= 4
    /\ TransparentSet(img) = {}

\* The scan of main.rs:133-170 has visited every pixel.
ScanComplete == img # NoRaster /\ scan = img.w * img.h

\* C14: the scan records as border points exactly the pixels of alpha > 0
\* with an in-bounds Moore neighbour of alpha 0, and as transparent pixels
\* exactly the pixels of alpha 0, each once; the two are disjoint, and every
\* border coordinate is the key of one index, whose colour is the input RGB of
\* that pixel.
C14_ClassifierExact ==
    ScanComplete =>
        /\ Range(points) = BorderPoints(img)
        /\ Len(points) = Cardinality(BorderPoints(img))
        /\ Range(transparent_pixels) = TransparentSet(img)
        /\ Len(transparent_pixels) = Cardinality(TransparentSet(img))
        /\ Range(points) \cap Range(transparent_pixels) = {}
        /\ DOMAIN position_to_index = BorderPoints(img)
        /\ Len(colors) = Len(points)
        /\ \A c \in BorderPoints(img) :
              /\ position_to_index[c] \in 0..(Len(points) - 1)
              /\ points[position_to_index[c] + 1] = c
              /\ colors[position_to_index[c] + 1] = RGB(GetPixel(img, c[1], c[2]))

\* A finished scan of an image with a border point whose only transparent
\* neighbour is diagonal, a pixel of alpha > 0 that is no border point and
\* border points of two colours.
C14_Witness ==
    /\ ScanComplete
    /\ \E c \in BorderPoints(img) : ~IsBorderSkipsDiagonals(img, c[1], c[2])
    /\ \E c \in Coords(img) : /\ Alpha(img, c[1], c[2]) > 0
                               /\ c \notin BorderPoints(img)
    /\ \E c1, c2 \in BorderPoints(img) :
          GetPixel(img, c1[1], c1[2]) # GetPixel(img, c2[1], c2[2])
    /\ Len(transparent_pixels) >= 1

\* The raster holds a pixel of alpha 0 and a pixel of alpha > 0.
Mixed(r) == TransparentSet(r) # {} /\ TransparentSet(r) # Coords(r)

\* convert_image has returned through the test of main.rs:172-175.
EmptyBorderExitTaken ==
    /\ ScanComplete
    /\ cpc \in {"done", "counted"}
    /\ points = <<>>

\* C21: once the scan has visited every pixel, the list of border points is
\* empty if and only if every alpha is 0 or every alpha is above 0; an image
\* with both kinds of pixel has a border point, and convert_image never
\* returns through the empty-border test of main.rs:172-175 for it.
C21_EmptyBorderIffUniform ==
    /\ ScanComplete => (points = <<>> <=> ~Mixed(img))
    /\ EmptyBorderExitTaken => ~Mixed(img) /\ ret = "false"

\* The fill has been entered for an image of at least five pixels with a
\* single transparent pixel and a single border point, the other pixels of
\* alpha > 0 being away from the transparent one.
C21_Witness ==
    /\ ScanComplete
    /\ cpc = "fill"
    /\ Mixed(img)
    /\ img.w * img.h >= 5
    /\ Len(points) = 1
    /\ Len(transparent_pixels) = 1

-----------------------------------------------------------------------------
(* Properties of the batch (Spec).                                       *)

\* The join loop of main.rs:269 has ended.
BatchComplete == mpc \in {"load_fixed", "load_failed", "done"}

\* The inputs resolve_files counts without dispatching them: existing paths
\* that are not PNG files, and the non-PNG files of a directory.
IgnoredOf(arg) ==
    CASE Metadata(arg) = "file" -> IF is_png_file(arg) THEN 0 ELSE 1
      [] Metadata(arg) = "other" -> 1
      [] Metadata(arg) = "dir" ->
            IF ~ReadDirOk(arg) THEN 1
            ELSE Cardinality({j \in DOMAIN ReadDir(arg) :
                                 /\ Metadata(ReadDir(arg)[j]) = "file"
                                 /\ ~is_png_file(ReadDir(arg)[j])})
      [] OTHER -> 0

RECURSIVE SumOver(_, _)
SumOver(f, n) == IF n = 0 THEN 0 ELSE f[n] + SumOver(f, n - 1)

Ignored == SumOver([j \in DOMAIN args |-> IgnoredOf(args[j])], Len(args))

\* C1 as stated: once every task is joined, fixed + failed is the number of
\* dispatched paths.
C1_SumIsDispatched ==
    BatchComplete => files_fixed + files_failed = Len(files)

\* C1 amended: once every task is joined, fixed + failed is the number of
\* dispatched paths plus the number of inputs counted but not dispatched.
C1_SumIsCounted ==
    BatchComplete =>
        /\ Len(tasks) = Len(files)
        /\ files_fixed + files_failed = Len(files) + Ignored

\* Two files dispatched and joined, one of them fixed, beside an ignored input.
C1_Witness ==
    /\ BatchComplete
    /\ Len(files) = 2
    /\ Ignored >= 1
    /\ files_fixed >= 1

NumConverted(v) == Cardinality({i \in DOMAIN tasks : tasks[i].converted = v
                                                     /\ tasks[i].pc = "done"})

\* C2: a task adds to the counters exactly once, when it ends: 1 to fixed if
\* convert_image returned true, else 1 to failed; the counters hold nothing else
\* beside the ignored inputs.
C2_OneIncrementPerTask ==
    /\ \A i \in DOMAIN tasks :
          LET t == tasks[i]
          IN  /\ t.inc_fixed + t.inc_failed = (IF t.pc = "done" THEN 1 ELSE 0)
              /\ t.pc = "done" => t.converted \in {"true", "false"}
              /\ t.inc_fixed = 1 <=> (t.pc = "done" /\ t.converted = "true")
    /\ files_fixed = NumConverted("true")
    /\ mpc # "start" => files_failed = Ignored + NumConverted("false")

\* Two finished tasks, one counted fixed and one that failed at the save.
C2_Witness ==
    \E i, j \in DOMAIN tasks :
        /\ tasks[i].pc = "done" /\ tasks[i].converted = "true"
        /\ tasks[j].pc = "done" /\ tasks[j].converted = "false"
        /\ tasks[j].rgba # tasks[j].read.img

\* C3: the counters are read only when every dispatched file has a task that
\* has run to its end and was joined, whatever failed; what is reported is
\* the final value of the counters.
C3_SummaryAfterAllTasks ==
    /\ BatchComplete =>
          /\ Len(tasks) = Len(files)
          /\ threads = {}
          /\ \A i \in DOMAIN tasks : tasks[i].pc = "done"
    /\ mpc \in {"load_failed", "done"} => fixed_count = NumConverted("true")
    /\ mpc = "done" =>
          /\ fixed_count = files_fixed
          /\ failed_count = files_failed
          /\ failed_count = Ignored + NumConverted("false")

\* A summary read after a batch whose first task failed and second succeeded.
C3_Witness ==
    /\ mpc = "done"
    /\ Len(tasks) = 2
    /\ tasks[1].converted = "false"
    /\ tasks[2].converted = "true"

\* What convert_image can do with a file: whether it decodes, whether its
\* border set is empty, and the rasters the fill can end with.
ConvertView(f) ==
    [decodable |-> f.decodable,
     empty |-> f.decodable /\ BorderPoints(f.img) = {},
     out |-> IF f.decodable
             THEN FillFrom(f.img, Classify(f.img), debug, 1) ELSE {}]

\* C4 as stated: tasks share nothing but the counters, so each task works on
\* its file as the batch received it, whatever the other tasks do.
C4_TasksIndependent ==
    \A i \in DOMAIN tasks :
        tasks[i].pc # "start" =>
            ConvertView(tasks[i].read) = ConvertView(fs0[tasks[i].path])


-----------------------------------------------------------------------------
(* fix_alpha_bleed, maina.rs:116-362: the flood-averaging pipeline.      *)

\* maina.rs:22-31
NEIGHBOR_LOCATIONS ==
    << <<-1, -1>>, <<0, -1>>, <<1, -1>>, <<1, 0>>,
       <<1, 1>>, <<0, 1>>, <<-1, 1>>, <<-1, 0>> >>

\* maina.rs:105-114: the neighbours of (x, y) the filter lets through, in the
\* order of NEIGHBOR_LOCATIONS.
neighbors(x, y, w, h) ==
    LET Keep(d) == LET x1 == x + d[1]
                       y1 == y + d[2]
                   IN  x1 > 0 /\ y1 > 0 /\ x1 < w /\ y1 < h
        kept == SelectSeq(NEIGHBOR_LOCATIONS, Keep)
    IN  [k \in 1..Len(kept) |-> <<x + kept[k][1], y + kept[k][2]>>]

\* The k-th coordinate visited by `for x in 0..width { for y in 0..height`.
ColumnMajor(r, k) == <<k \div r.h, k % r.h>>

StageAt(st, r, c) == st[PixelIndex(r, c[1], c[2])]

\* `v as u8` of a u32
AsU8(v) == v % 256

RECURSIVE SumSeq(_, _)
SumSeq(f, n) == IF n = 0 THEN 0 ELSE f[n] + SumSeq(f, n - 1)

\* maina.rs:307-309: the colour a Processed neighbour adds to the sums.
NeighborColor(c) == RGB(GetPixel(lookup, c[1], c[2]))

\* maina.rs:297-323: the buffer after the pixel c of the frontier is averaged
\* over the neighbours in `procs`.
Averaged(buf, c, procs) ==
    LET n == Len(procs)
        r == SumSeq([k \in 1..n |-> NeighborColor(procs[k])[1]], n)
        g == SumSeq([k \in 1..n |-> NeighborColor(procs[k])[2]], n)
        b == SumSeq([k \in 1..n |-> NeighborColor(procs[k])[3]], n)
    IN  IF n > 0
        THEN put_pixel(buf, c[1], c[2],
                 <<AsU8(r \div n), AsU8(g \div n), AsU8(b \div n),
                   GetPixel(buf, c[1], c[2])[4]>>)
        ELSE buf

FloodRasters == Rasters(FloodPixels)

\* A file that decodes to something else than 8-bit RGBA.
OtherFile == [decodable |-> TRUE, img |-> [w |-> 1, h |-> 1, px |-> <<RedPx>>]]

\* The first call of fix_alpha_bleed is about to read a file that holds an
\* 8-bit RGBA raster of `rasters`, or one of another kind.
InitFloodOn(rasters) ==
    /\ \/ /\ color_space = "RGBA"
          /\ result = "U8"
          /\ file \in {[decodable |-> TRUE, img |-> r] : r \in rasters}
       \/ /\ color_space = "RGBA"
          /\ result = "U16"
          /\ file = OtherFile
       \/ /\ color_space = "RGB"
          /\ result = "U8"
          /\ file = OtherFile
    /\ fpc = "decode"
    /\ FloodAtEntry
    /\ debug = FALSE
    /\ ConvertAtEntry
    /\ IdleBatch

InitFlood == InitFloodOn(FloodRasters)

\* maina.rs:124-132: not RGBA.
WrongColorSpace ==
    /\ fpc = "decode"
    /\ file.decodable
    /\ color_space # "RGBA"
    /\ fret' = "false"
    /\ fpc' = "done"
    /\ UNCHANGED <<color_space, result, value, lookup, stages, queue0, queue1,
                   fscan, qi, written>>
    /\ UNCHANGED <<cvars, bvars>>

\* maina.rs:355-361: a 16-bit result is printed and reported as success.
SixteenBit ==
    /\ fpc = "decode"
    /\ file.decodable
    /\ color_space = "RGBA"
    /\ result = "U16"
    /\ fret' = "true"
    /\ fpc' = "done"
    /\ UNCHANGED <<color_space, result, value, lookup, stages, queue0, queue1,
                   fscan, qi, written>>
    /\ UNCHANGED <<cvars, bvars>>

\* maina.rs:253-265: a pixel starts Processed if its alpha is above 0.
InitialStages(r) ==
    [k \in 1..(r.w * r.h) |->
        IF r.px[k][4] > 0 THEN "Processed" ELSE "Unprocessed"]

\* maina.rs:241-265: the buffer, its clone, and the stage of each pixel.
InitStages ==
    /\ fpc = "decode"
    /\ file.decodable
    /\ color_space = "RGBA"
    /\ result = "U8"
    /\ value' = file.img
    /\ lookup' = file.img
    /\ stages' = InitialStages(file.img)
    /\ fpc' = "seed"
    /\ UNCHANGED <<color_space, result, queue0, queue1, fscan, qi, written, fret>>
    /\ UNCHANGED <<cvars, bvars>>

\* maina.rs:283-285: the loop over the neighbours ends at the first it stages.
FirstOf(s) == IF s = <<>> THEN <<>> ELSE <<s[1]>>

\* A faulty variant of SeedTargets: the stage of the neighbour is not looked at.
SeedTargetsAnyStage(r, st, c) ==
    FirstOf(neighbors(c[1], c[2], r.w, r.h))

\* maina.rs:275-286: the neighbours a Processed pixel c stages while seeding:
\* the first in-bounds Unprocessed one it lists, then `break`.
SeedTargets(r, st, c) ==
    LET ns == neighbors(c[1], c[2], r.w, r.h)
        Wanted(n) == /\ ~(n[1] < 0 \/ n[1] >= r.w \/ n[2] < 0 \/ n[2] >= r.h)
                     /\ StageAt(st, r, n) = "Unprocessed"
    IN  FirstOf(SelectSeq(ns, Wanted))

\* The stages after the pixels of `cs` are given the stage s.
WithStage(r, st, cs, s) ==
    [k \in DOMAIN st |->
        IF \E j \in DOMAIN cs : PixelIndex(r, cs[j][1], cs[j][2]) = k
        THEN s ELSE st[k]]

\* maina.rs:270-288: one pixel of the seeding pass.
SeedPixel ==
    /\ fpc = "seed"
    /\ fscan < value.w * value.h
    /\ LET c == ColumnMajor(value, fscan)
           staged == IF StageAt(stages, value, c) = "Processed"
                     THEN SeedTargets(value, stages, c) ELSE <<>>
       IN  /\ queue0' = queue0 \o staged
           /\ stages' = WithStage(value, stages, staged, "Staged")
    /\ fscan' = fscan + 1
    /\ UNCHANGED <<color_space, result, value, lookup, queue1, fpc, qi, written,
                   fret>>
    /\ UNCHANGED <<cvars, bvars>>

\* maina.rs:268-291: the seeding pass has visited every pixel.
SeedDone ==
    /\ fpc = "seed"
    /\ fscan = value.w * value.h
    /\ fpc' = "loop"
    /\ UNCHANGED <<color_space, result, value, lookup, stages, queue0, queue1,
                   fscan, qi, written, fret>>
    /\ UNCHANGED <<cvars, bvars>>

\* maina.rs:301-309: the neighbours of c whose colour enters its average.
ProcessedNeighbors(r, st, c) ==
    LET IsProcessed(n) == StageAt(st, r, n) = "Processed"
    IN  SelectSeq(neighbors(c[1], c[2], r.w, r.h), IsProcessed)

\* A faulty variant of Discovered: a neighbour that is already Staged is
\* pushed again.
DiscoveredAlsoStaged(r, st, c) ==
    LET NotProcessed(n) == StageAt(st, r, n) # "Processed"
    IN  SelectSeq(neighbors(c[1], c[2], r.w, r.h), NotProcessed)

\* maina.rs:310-313: the neighbours of c the frontier pixel c stages and
\* pushes onto the next frontier.
Discovered(r, st, c) ==
    LET IsUnprocessed(n) == StageAt(st, r, n) = "Unprocessed"
    IN  SelectSeq(neighbors(c[1], c[2], r.w, r.h), IsUnprocessed)

\* maina.rs:293-324: one pixel of the frontier.
ProcessPixel ==
    /\ fpc = "loop"
    /\ qi < Len(queue0)
    /\ LET c == queue0[qi + 1]
           procs == ProcessedNeighbors(value, stages, c)
           fresh == Discovered(value, stages, c)
       IN  /\ value' = Averaged(value, c, procs)
           /\ stages' = WithStage(value, stages, fresh, "Staged")
           /\ queue1' = queue1 \o fresh
    /\ qi' = qi + 1
    /\ UNCHANGED <<color_space, result, lookup, queue0, fpc, fscan, written, fret>>
    /\ UNCHANGED <<cvars, bvars>>

\* A faulty variant of Swapped: the finished frontier is not cleared.
SwappedWithoutClear(q0, q1) == q0 \o q1

\* maina.rs:332-333: `queue0.clear(); swap(&mut queue0, &mut queue1)` leaves
\* the next frontier in queue0.
Swapped(q0, q1) == q1

\* maina.rs:325-333: the frontier is promoted and the queues are switched.
Promote ==
    /\ fpc = "loop"
    /\ queue0 # <<>>
    /\ qi = Len(queue0)
    /\ stages' = WithStage(value, stages, queue0, "Processed")
    /\ queue0' = Swapped(queue0, queue1)
    /\ queue1' = <<>>
    /\ qi' = 0
    /\ UNCHANGED <<color_space, result, value, lookup, fpc, fscan, written, fret>>
    /\ UNCHANGED <<cvars, bvars>>

\* A faulty variant of Opaque: only the pixels the flood reached are touched.
OpaqueWhereProcessed(buf, st) ==
    [buf EXCEPT !.px = [k \in DOMAIN buf.px |->
                           <<buf.px[k][1], buf.px[k][2], buf.px[k][3],
                             IF st[k] = "Processed" THEN 255 ELSE buf.px[k][4]>>]]

\* maina.rs:336-341: the alpha byte of every pixel is set to 255.
Opaque(buf, st) ==
    [buf EXCEPT !.px = [k \in DOMAIN buf.px |->
                           <<buf.px[k][1], buf.px[k][2], buf.px[k][3], 255>>]]

\* maina.rs:292, 336-341: the frontier is empty; every alpha becomes 255.
ForceAlpha ==
    /\ fpc = "loop"
    /\ queue0 = <<>>
    /\ value' = Opaque(value, stages)
    /\ fpc' = "write"
    /\ UNCHANGED <<color_space, result, lookup, stages, queue0, queue1, fscan, qi,
                   written, fret>>
    /\ UNCHANGED <<cvars, bvars>>

\* maina.rs:343-361: the buffer is encoded and written, the outcome of the
\* write dropped; the call reports success.
WriteBack ==
    /\ fpc = "write"
    /\ written' = value
    /\ file' \in {[decodable |-> TRUE, img |-> value],
                  file, [decodable |-> FALSE, img |-> NoRaster]}
    /\ fret' = "true"
    /\ fpc' = "done"
    /\ UNCHANGED <<color_space, result, value, lookup, stages, queue0, queue1,
                   fscan, qi>>
    /\ UNCHANGED <<debug, cpc, img, rgba_img, scan, points, colors,
                   transparent_pixels, position_to_index, filled, ret, saves>>
    /\ UNCHANGED bvars

\* maina.rs:120: `decoder.decode().unwrap()` on a file that does not decode.
DecodePanic ==
    /\ fpc = "decode"
    /\ ~file.decodable
    /\ fpc' = "panic"
    /\ UNCHANGED <<color_space, result, value, lookup, stages, queue0, queue1,
                   fscan, qi, written, fret>>
    /\ UNCHANGED <<cvars, bvars>>

\* maina.rs:52-62: the loop of main calls fix_alpha_bleed for the next path,
\* which may name the same file again.
NextPath ==
    /\ fpc = "done"
    /\ fpc' = "decode"
    /\ value' = NoRaster
    /\ lookup' = NoRaster
    /\ stages' = <<>>
    /\ queue0' = <<>>
    /\ queue1' = <<>>
    /\ fscan' = 0
    /\ qi' = 0
    /\ written' = NoRaster
    /\ fret' = "pending"
    /\ UNCHANGED <<color_space, result>>
    /\ UNCHANGED <<cvars, bvars>>

NextFlood ==
    \/ WrongColorSpace
    \/ SixteenBit
    \/ InitStages
    \/ SeedPixel
    \/ SeedDone
    \/ ProcessPixel
    \/ Promote
    \/ ForceAlpha
    \/ WriteBack
    \/ DecodePanic
    \/ NextPath

SpecFlood == InitFlood /\ [][NextFlood]_vars


-----------------------------------------------------------------------------
(* fix_alpha_bleed as a fold over its loops, with the seeding rule as a   *)
(* parameter: `all` = FALSE is the code (the `break` of maina.rs:285),    *)
(* `all` = TRUE the seeding that stages every Unprocessed neighbour.      *)

\* The seeding of maina.rs:275-286 without its `break`.
SeedAllTargets(r, st, c) ==
    LET ns == neighbors(c[1], c[2], r.w, r.h)
        Wanted(n) == /\ ~(n[1] < 0 \/ n[1] >= r.w \/ n[2] < 0 \/ n[2] >= r.h)
                     /\ StageAt(st, r, n) = "Unprocessed"
    IN  SelectSeq(ns, Wanted)

\* maina.rs:268-289 from the k-th pixel on.
RECURSIVE SeedFrom(_, _, _, _, _)
SeedFrom(r, st, q, k, all) ==
    IF k = r.w * r.h THEN [stages |-> st, queue0 |-> q]
    ELSE LET c == ColumnMajor(r, k)
             staged == IF StageAt(st, r, c) # "Processed" THEN <<>>
                       ELSE IF all THEN SeedAllTargets(r, st, c)
                       ELSE SeedTargets(r, st, c)
         IN  SeedFrom(r, WithStage(r, st, staged, "Staged"), q \o staged, k + 1, all)

\* maina.rs:293-324 from the pixel after the i-th of the frontier q0 on.
RECURSIVE RoundFrom(_, _, _, _, _)
RoundFrom(buf, st, q0, q1, i) ==
    IF i = Len(q0) THEN [value |-> buf, stages |-> st, queue1 |-> q1]
    ELSE LET c == q0[i + 1]
             fresh == Discovered(buf, st, c)
         IN  RoundFrom(Averaged(buf, c, ProcessedNeighbors(buf, st, c)),
                       WithStage(buf, st, fresh, "Staged"), q0, q1 \o fresh, i + 1)

\* maina.rs:292-334 from a frontier on.
RECURSIVE LoopFrom(_, _, _)
LoopFrom(buf, st, q0) ==
    IF q0 = <<>> THEN [value |-> buf, stages |-> st]
    ELSE LET round == RoundFrom(buf, st, q0, <<>>, 0)
         IN  LoopFrom(round.value, WithStage(buf, round.stages, q0, "Processed"),
                      Swapped(q0, round.queue1))

\* maina.rs:241-341: the buffer and the stages fix_alpha_bleed ends with on
\* the raster the call holds in `lookup`.
FloodFill(r, all) ==
    LET seeded == SeedFrom(r, InitialStages(r), <<>>, 0, all)
        looped == LoopFrom(r, seeded.stages, seeded.queue0)
    IN  [value |-> Opaque(looped.value, looped.stages), stages |-> looped.stages]

-----------------------------------------------------------------------------
(* Properties of fix_alpha_bleed (SpecFlood).                            *)

\* The in-bounds Moore neighbours of a pixel.
Moore(r, c) ==
    {n \in Coords(r) : /\ n # c
                       /\ n[1] - c[1] \in {-1, 0, 1}
                       /\ n[2] - c[2] \in {-1, 0, 1}}

RECURSIVE ChannelSum(_, _, _)
ChannelSum(r, S, ch) ==
    IF S = {} THEN 0
    ELSE LET n == CHOOSE m \in S : TRUE
         IN  GetPixel(r, n[1], n[2])[ch] + ChannelSum(r, S \ {n}, ch)

\* The truncating channel-wise mean of the colours `r` holds at the pixels S.
MeanRGB(r, S) ==
    <<ChannelSum(r, S, 1) \div Cardinality(S),
      ChannelSum(r, S, 2) \div Cardinality(S),
      ChannelSum(r, S, 3) \div Cardinality(S)>>

\* The pixels of the current frontier the loop at maina.rs:293 has given a
\* colour in this round.
FilledThisRound ==
    {queue0[i] : i \in {j \in 1..qi :
        \E n \in Range(neighbors(queue0[j][1], queue0[j][2], value.w, value.h)) :
            StageAt(stages, value, n) = "Processed"}}

\* C10: a pixel the flood fills gets the truncating channel-wise mean of the
\* finalized colours of all its in-bounds Moore neighbours that are Processed
\* when it is promoted, each channel within 0..255.
C10_FillIsMeanOfProcessed ==
    fpc = "loop" =>
        \A c \in FilledThisRound :
            LET P == {n \in Moore(value, c) : StageAt(stages, value, n) = "Processed"}
                p == GetPixel(value, c[1], c[2])
            IN  /\ P # {}
                /\ RGB(p) = MeanRGB(value, P)
                /\ \A ch \in 1..3 : p[ch] \in 0..255

\* The frontier loop of maina.rs:292-334 has ended in this call.
LoopEnded == fpc \in {"write", "done"} /\ lookup # NoRaster

\* The pixels whose input alpha is 0, and those whose input alpha is not.
InputTransparent == {c \in Coords(lookup) : Alpha(lookup, c[1], c[2]) = 0}
InputOpaque == Coords(lookup) \ InputTransparent

\* C11: in an image with at least one pixel of alpha > 0, every pixel whose
\* input alpha is 0 is Staged and then Processed, so that no pixel is
\* Unprocessed when the frontier loop has ended.
C11_NoPixelLeftUnprocessed ==
    (LoopEnded /\ InputOpaque # {}) =>
        \A c \in Coords(lookup) : StageAt(stages, lookup, c) # "Unprocessed"

\* C12: when the fill has completed every pixel of the buffer, and of the
\* raster written to the file, has alpha 255, whatever its input alpha and
\* whether or not the flood reached it.
C12_AlphaForcedOpaque ==
    LoopEnded =>
        /\ \A k \in DOMAIN value.px : value.px[k][4] = 255
        /\ fpc = "done" => /\ written = value
                           /\ \A k \in DOMAIN written.px : written.px[k][4] = 255

\* A finished call on an input with a pixel of alpha 128, a transparent pixel
\* the flood filled and a transparent pixel it never reached.
C12_Witness ==
    /\ fpc = "done"
    /\ LoopEnded
    /\ \E c \in InputOpaque : Alpha(lookup, c[1], c[2]) = 128
    /\ \E c \in InputTransparent : StageAt(stages, lookup, c) = "Processed"
    /\ \E c \in InputTransparent : StageAt(stages, lookup, c) = "Unprocessed"

\* The call is working on an 8-bit RGBA input in which every alpha is 255.
InputAllOpaque ==
    /\ lookup # NoRaster
    /\ \A k \in DOMAIN lookup.px : lookup.px[k][4] = 255

\* C13: a call on a raster in which every pixel has alpha 255, such as the
\* output of an earlier call, seeds an empty frontier and changes no byte: the
\* buffer stays equal to the input and what is written is the input.
C13_OpaqueInputUnchanged ==
    InputAllOpaque =>
        /\ queue0 = <<>>
        /\ queue1 = <<>>
        /\ \A k \in DOMAIN stages : stages[k] = "Processed"
        /\ value = lookup
        /\ written \in {NoRaster, lookup}

\* A finished second call on the output of a first one: the input holds a
\* pixel that was transparent with stale colour before the first call made it
\* opaque, next to a red pixel.
C13_Witness ==
    /\ fpc = "done"
    /\ InputAllOpaque
    /\ lookup.w >= 2
    /\ lookup.h >= 2
    /\ written = lookup
    /\ \E k \in DOMAIN lookup.px : lookup.px[k] = <<9, 9, 9, 255>>
    /\ \E k \in DOMAIN lookup.px : lookup.px[k] = RedPx

\* C15: a pixel of the frontier that finds no Processed neighbour in its round
\* (c = 0 at maina.rs:315) is not finalized with its stale input colour: it is
\* not made Processed by the step that ends the round, so that a later round
\* gives it an average.
C15_UnassignedNotFinalized ==
    [][fpc = "loop" =>
          \A j \in DOMAIN queue0 :
              (/\ StageAt(stages, value, queue0[j]) = "Staged"
               /\ StageAt(stages', value, queue0[j]) = "Processed")
              => ProcessedNeighbors(value, stages, queue0[j]) # <<>>]_vars

\* The pixels waiting in the current frontier and the next one.
Frontiers == queue0 \o queue1

Occurrences(q, c) == Cardinality({j \in DOMAIN q : q[j] = c})

StageRank(s) == CASE s = "Unprocessed" -> 0 [] s = "Staged" -> 1 [] s = "Processed" -> 2

\* A pixel is in a frontier exactly while it is Staged, and is there once.
QueuedIffStaged ==
    stages # <<>> =>
        \A c \in Coords(value) :
            Occurrences(Frontiers, c) =
                (IF StageAt(stages, value, c) = "Staged" THEN 1 ELSE 0)

\* Within a call a stage stays or moves one step forward, and a pixel enters a
\* frontier only in the step that takes it from Unprocessed to Staged.
StagesMoveForward ==
    \A k \in DOMAIN stages \cap DOMAIN stages' :
        LET c == <<(k - 1) % value.w, (k - 1) \div value.w>>
        IN  /\ StageRank(stages'[k]) - StageRank(stages[k]) \in {0, 1}
            /\ Occurrences(Frontiers', c) > Occurrences(Frontiers, c)
                  => stages[k] = "Unprocessed" /\ stages'[k] = "Staged"

InitFloodFair == InitFloodOn(Rasters(FairFloodPixels))

SpecFloodFair ==
    /\ InitFloodFair
    /\ [][NextFlood]_vars
    /\ WF_vars(NextFlood)

\* What is left to do in the frontier loop: stage changes still possible,
\* then pixels of the current frontier still to visit.
LoopMeasure ==
    LET left(s) == Cardinality({k \in DOMAIN stages : stages[k] = s})
    IN  (Len(stages) + 1) * (2 * left("Unprocessed") + left("Staged"))
            + (Len(queue0) - qi)

\* C17: the frontier loop of maina.rs:292-334 terminates on every raster: from
\* every state inside the loop the frontier becomes empty and the pass that
\* follows the loop is reached, every step inside the loop using up one of the
\* at most two stage changes of a pixel or one visit of the current frontier.
C17_FrontierLoopTerminates ==
    /\ (fpc = "loop") ~> (fpc = "write")
    /\ [][(fpc = "loop" /\ fpc' = "loop") =>
              (LoopMeasure' < LoopMeasure /\ LoopMeasure' >= 0)]_vars

\* The loop has ended after a second round: a pixel no seeding could stage,
\* since no pixel with input alpha > 0 lists it as a neighbour, is Processed.
C17_Witness ==
    /\ fpc = "write"
    /\ \E p \in InputTransparent :
          /\ StageAt(stages, lookup, p) = "Processed"
          /\ \A o \in InputOpaque :
                p \notin Range(neighbors(o[1], o[2], lookup.w, lookup.h))

\* The fold computes what the steps compute.
FloodFoldAgreesWithSteps ==
    fpc = "write" =>
        /\ value = FloodFill(lookup, FALSE).value
        /\ stages = FloodFill(lookup, FALSE).stages

\* Some pixel with alpha > 0 lists more than one Unprocessed neighbour when
\* the seeding pass starts: the `break` leaves one of them unstaged.
SeedingSkips ==
    \E c \in InputOpaque : Len(SeedAllTargets(lookup, InitialStages(lookup), c)) > 1

SameRGB(a, b, c) == RGB(GetPixel(a, c[1], c[2])) = RGB(GetPixel(b, c[1], c[2]))

\* C18 as stated: staging only the first Unprocessed neighbour while seeding
\* changes the order of the frontier and not the result: when the buffer is
\* ready to be written every pixel has the RGB it gets when seeding stages
\* every Unprocessed neighbour.
C18_SeedingRuleKeepsResult ==
    fpc = "write" =>
        \A c \in Coords(lookup) : SameRGB(value, FloodFill(lookup, TRUE).value, c)

\* C18, amended: the rule changes the result too. The two seedings agree on
\* every pixel whose input alpha is above 0, and on every pixel when no pixel
\* lists more than one Unprocessed neighbour at seeding; and a pixel the code
\* makes Processed is Processed under the other seeding as well.
C18_SeedingRuleKeepsOpaqueAndCoverage ==
    fpc = "write" =>
        LET other == FloodFill(lookup, TRUE)
        IN  /\ \A c \in InputOpaque : SameRGB(value, other.value, c)
            /\ ~SeedingSkips => value = other.value /\ stages = other.stages
            /\ \A c \in Coords(lookup) :
                  StageAt(stages, lookup, c) = "Processed"
                      => StageAt(other.stages, lookup, c) = "Processed"

\* The loop has ended on an input where the rule skipped a neighbour: a
\* transparent pixel the other seeding fills with the colour of its neighbour
\* is still Unprocessed and keeps its stale RGB.
C18_Witness ==
    /\ fpc = "write"
    /\ SeedingSkips
    /\ LET other == FloodFill(lookup, TRUE)
       IN  \E c \in InputTransparent :
               /\ StageAt(stages, lookup, c) = "Unprocessed"
               /\ StageAt(other.stages, lookup, c) = "Processed"
               /\ ~SameRGB(value, other.value, c)

\* C19: when the buffer is ready to be written, a transparent pixel with a
\* Moore neighbour of alpha > 0, all such neighbours sharing one RGB, holds
\* that RGB, wherever in the image those neighbours lie.
C19_FirstRingTakesNeighbourColour ==
    fpc = "write" =>
        \A c \in InputTransparent :
            LET near == Moore(lookup, c) \cap InputOpaque
            IN  \A o \in near :
                    (\A o2 \in near :
                         RGB(GetPixel(lookup, o2[1], o2[2]))
                             = RGB(GetPixel(lookup, o[1], o[2])))
                    => RGB(GetPixel(value, c[1], c[2]))
                           = RGB(GetPixel(lookup, o[1], o[2]))

\* The call works on an image with no pixel of alpha 0 or none of alpha > 0.
NothingToFill == lookup # NoRaster /\ (InputTransparent = {} \/ InputOpaque = {})

\* C20: on an image whose border set is empty because every alpha is above 0
\* or every alpha is 0, fix_alpha_bleed changes no byte of the raster, writes
\* nothing and reports the file as not fixed.
C20_NothingToFillIsNoOp ==
    NothingToFill =>
        /\ value = lookup
        /\ written = NoRaster
        /\ file = [decodable |-> TRUE, img |-> lookup]
        /\ fpc = "done" => fret = "false"

=============================================================================
